---- MODULE Spec2Model ----
(***************************************************************************)
(* A model of the pydantic column types of main.py (BasePydanticType,      *)
(* PydanticJSON, PydanticString), of the alembic hook render_item and of   *)
(* the load of migrations/env.py.                                          *)
(*                                                                         *)
(* Python values are records [t |-> <type name>, v |-> <payload>].  A      *)
(* string's payload is the sequence of its characters, so that JSON text   *)
(* is produced and parsed character by character.  A raised exception is   *)
(* the outcome [t |-> "raise", v |-> <exception class>].                   *)
(***************************************************************************)
EXTENDS Integers, Sequences, FiniteSets, TLC

\* ------------------------------------------------------------------ bounds

\* Longest string held by field a of a model instance.
MaxStrLen == 2
\* Field b of a model instance ranges over -MaxInt .. MaxInt.
MaxInt == 10
\* Loads of migrations/env.py in one run of the model.
MaxLoads == 2

\* ----------------------------------------------------------- Python values

PyNone == [t |-> "NoneType", v |-> 0]
PyStr(s) == [t |-> "str", v |-> s]
PyInt(n) == [t |-> "int", v |-> n]
PyBool(b) == [t |-> "bool", v |-> b]
PyDict(f) == [t |-> "dict", v |-> f]
Raise(exc) == [t |-> "raise", v |-> exc]

IsNone(x) == x.t = "NoneType"
IsRaise(x) == x.t = "raise"

\* The characters of the strings of the model: a letter, and the two
\* characters JSON text has to escape.
Quote == "\""
Backslash == "\\"
Alphabet == {"t", Quote, Backslash}

RECURSIVE StringsUpTo(_)
StringsUpTo(n) ==
  IF n = 0 THEN {<<>>}
  ELSE LET shorter == StringsUpTo(n - 1)
       IN shorter \cup {Append(s, ch) : s \in shorter, ch \in Alphabet}

\* class UserMeta(BaseModel): a: str; b: int; c: bool | None
UserMeta(a, b, c) == [t |-> "UserMeta", v |-> [a |-> a, b |-> b, c |-> c]]

\* Every instance of UserMeta within the bounds; each field holds a value of
\* its declared type, as validation leaves it.
Models ==
  {UserMeta(PyStr(s), PyInt(n), c) :
     s \in StringsUpTo(MaxStrLen),
     n \in (0 - MaxInt) .. MaxInt,
     c \in {PyBool(TRUE), PyBool(FALSE), PyNone}}

KeyA == <<"a">>
KeyB == <<"b">>
KeyC == <<"c">>

\* ------------------------------------------------ pydantic: dumping a model

\* model.model_dump(mode="json"): the mapping of field names to JSON values.
\* A str, an int, a bool and None are their own JSON values.
model_dump(model) ==
  PyDict([k \in {KeyA, KeyB, KeyC} |->
            IF k = KeyA THEN model.v.a
            ELSE IF k = KeyB THEN model.v.b
            ELSE model.v.c])

RECURSIVE Concat(_)
Concat(seqs) ==
  IF seqs = <<>> THEN <<>> ELSE Head(seqs) \o Concat(Tail(seqs))

Chars(word) ==
  CASE word = "null" -> <<"n", "u", "l", "l">>
    [] word = "true" -> <<"t", "r", "u", "e">>
    [] word = "false" -> <<"f", "a", "l", "s", "e">>

Digits == <<"0", "1", "2", "3", "4", "5", "6", "7", "8", "9">>

RECURSIVE NatText(_)
NatText(n) ==
  IF n < 10 THEN <<Digits[n + 1]>>
  ELSE Append(NatText(n \div 10), Digits[(n % 10) + 1])

IntText(n) == IF n < 0 THEN <<"-">> \o NatText(0 - n) ELSE NatText(n)

\* A JSON string literal: the quote and the backslash are escaped.
RECURSIVE Escaped(_)
Escaped(s) ==
  IF s = <<>> THEN <<>>
  ELSE (IF Head(s) \in {Quote, Backslash} THEN <<Backslash, Head(s)>>
        ELSE <<Head(s)>>) \o Escaped(Tail(s))

StrText(s) == <<Quote>> \o Escaped(s) \o <<Quote>>

ValueText(x) ==
  CASE x.t = "str" -> StrText(x.v)
    [] x.t = "int" -> IntText(x.v)
    [] x.t = "bool" -> IF x.v THEN Chars("true") ELSE Chars("false")
    [] x.t = "NoneType" -> Chars("null")

\* model.model_dump_json(): compact JSON text, the fields in declaration
\* order.
model_dump_json(model) ==
  PyStr(Concat(<<
    <<"{">>, StrText(KeyA), <<":">>, ValueText(model.v.a),
    <<",">>, StrText(KeyB), <<":">>, ValueText(model.v.b),
    <<",">>, StrText(KeyC), <<":">>, ValueText(model.v.c),
    <<"}">> >>))

\* ------------------------------------------------- pydantic: parsing JSON

\* A parse result: ok, the value read, and the position after it.
Parsed(val, next) == [ok |-> TRUE, val |-> val, next |-> next]
ParseError == [ok |-> FALSE, val |-> PyNone, next |-> 0]

At(s, i) == IF i >= 1 /\ i <= Len(s) THEN s[i] ELSE "EOF"

\* The characters of a string literal from position i (after the opening
\* quote) to its closing quote.
RECURSIVE ScanString(_, _, _)
ScanString(s, i, acc) ==
  IF At(s, i) = "EOF" THEN ParseError
  ELSE IF s[i] = Quote THEN Parsed(PyStr(acc), i + 1)
  ELSE IF s[i] = Backslash
    THEN IF At(s, i + 1) \in {Quote, Backslash}
           THEN ScanString(s, i + 2, Append(acc, s[i + 1]))
           ELSE ParseError
  ELSE ScanString(s, i + 1, Append(acc, s[i]))

DigitValue(ch) == CHOOSE d \in 0 .. 9 : Digits[d + 1] = ch
IsDigit(ch) == \E d \in 1 .. 10 : Digits[d] = ch

RECURSIVE ScanDigits(_, _, _)
ScanDigits(s, i, acc) ==
  IF IsDigit(At(s, i))
    THEN ScanDigits(s, i + 1, (10 * acc) + DigitValue(s[i]))
    ELSE Parsed(PyInt(acc), i)

ParseNumber(s, i) ==
  IF At(s, i) = "-"
    THEN IF IsDigit(At(s, i + 1))
           THEN LET r == ScanDigits(s, i + 1, 0)
                IN Parsed(PyInt(0 - r.val.v), r.next)
           ELSE ParseError
    ELSE ScanDigits(s, i, 0)

ParseWord(s, i, word, val) ==
  LET w == Chars(word)
  IN IF i + Len(w) - 1 <= Len(s) /\ SubSeq(s, i, i + Len(w) - 1) = w
       THEN Parsed(val, i + Len(w))
       ELSE ParseError

\* A JSON scalar at position i.
ParseScalar(s, i) ==
  LET ch == At(s, i)
  IN IF ch = Quote THEN ScanString(s, i + 1, <<>>)
     ELSE IF ch = "-" \/ IsDigit(ch) THEN ParseNumber(s, i)
     ELSE IF ch = "n" THEN ParseWord(s, i, "null", PyNone)
     ELSE IF ch = "t" THEN ParseWord(s, i, "true", PyBool(TRUE))
     ELSE IF ch = "f" THEN ParseWord(s, i, "false", PyBool(FALSE))
     ELSE ParseError

\* dict[key] = val
Put(f, key, val) ==
  [k \in (DOMAIN f) \cup {key} |-> IF k = key THEN val ELSE f[k]]

EmptyDict == [k \in {} |-> PyNone]

\* The members of an object from position i: "key":value, separated by
\* commas, up to the closing brace.
RECURSIVE ParseMembers(_, _, _)
ParseMembers(s, i, acc) ==
  IF At(s, i) # Quote THEN ParseError
  ELSE LET key == ScanString(s, i + 1, <<>>)
       IN IF ~key.ok \/ At(s, key.next) # ":" THEN ParseError
          ELSE LET val == ParseScalar(s, key.next + 1)
               IN IF ~val.ok THEN ParseError
                  ELSE LET dict == Put(acc, key.val.v, val.val)
                       IN IF At(s, val.next) = ","
                            THEN ParseMembers(s, val.next + 1, dict)
                          ELSE IF At(s, val.next) = "}"
                            THEN Parsed(PyDict(dict), val.next + 1)
                          ELSE ParseError

\* A whole JSON document: an object of scalars, or a scalar.
json_loads(s) ==
  LET r == IF At(s, 1) = "{"
             THEN IF At(s, 2) = "}" THEN Parsed(PyDict(EmptyDict), 3)
                  ELSE ParseMembers(s, 2, EmptyDict)
             ELSE ParseScalar(s, 1)
  IN IF r.ok /\ r.next = Len(s) + 1 THEN r ELSE ParseError

\* ---------------------------------------------- pydantic: validating a model

\* Field a: str.
ValidStr(x) == x.t = "str"
\* Field b: int; lax mode turns a bool into 0 or 1.
ValidInt(x) == x.t \in {"int", "bool"}
AsInt(x) == IF x.t = "bool" THEN PyInt(IF x.v THEN 1 ELSE 0) ELSE x
\* Field c: bool | None; lax mode turns the ints 0 and 1 into a bool.
ValidOptBool(x) == x.t \in {"bool", "NoneType"} \/ (x.t = "int" /\ x.v \in {0, 1})
AsOptBool(x) == IF x.t = "int" THEN PyBool(x.v = 1) ELSE x

\* Validation of a mapping against UserMeta: the three fields are required,
\* other keys are ignored.
ValidateDict(d) ==
  IF /\ {KeyA, KeyB, KeyC} \subseteq DOMAIN d.v
     /\ ValidStr(d.v[KeyA])
     /\ ValidInt(d.v[KeyB])
     /\ ValidOptBool(d.v[KeyC])
    THEN UserMeta(d.v[KeyA], AsInt(d.v[KeyB]), AsOptBool(d.v[KeyC]))
    ELSE Raise("ValidationError")

\* TypeAdapter(UserMeta).validate_python(value): an instance is returned as
\* it is, a mapping is validated, anything else is refused.
validate_python(value) ==
  IF value.t = "UserMeta" THEN value
  ELSE IF value.t = "dict" THEN ValidateDict(value)
  ELSE Raise("ValidationError")

\* UserMeta.model_validate_json(value): the value must be JSON text holding
\* an object.
model_validate_json(value) ==
  IF value.t # "str" THEN Raise("ValidationError")
  ELSE LET r == json_loads(value.v)
       IN IF r.ok /\ r.val.t = "dict" THEN ValidateDict(r.val)
          ELSE Raise("ValidationError")

\* ------------------------------------------------------- Python callables

\* A plain function given by the caller.
Function(name) == [t |-> "function", v |-> name]
\* An instance of a caller's class that defines __call__, and __bool__ (or
\* __len__) so that bool(instance) is False.
FalsyCallable(name) == [t |-> "FalsyCallable", v |-> name]
\* self.<attr>, found on class owner.
BoundMethod(owner, attr) == [t |-> "method", v |-> <<owner, attr>>]

\* bool(x)
Truthy(x) ==
  CASE x.t = "NoneType" -> FALSE
    [] x.t = "FalsyCallable" -> FALSE
    [] x.t = "bool" -> x.v
    [] x.t = "int" -> x.v # 0
    [] x.t \in {"str", "dict"} -> x.v # <<>>
    [] OTHER -> TRUE

\* x or y
Or(x, y) == IF Truthy(x) THEN x ELSE y

\* ------------------------------------------------------- sqlalchemy types

\* A TypeEngine class, and an instance of one built with args.
TypeClass(name) == [t |-> "type", v |-> name]
TypeInstance(name, args) == [t |-> "TypeEngine", v |-> [name |-> name, args |-> args]]

\* callable(x)
Callable(x) == x.t \in {"type", "function", "FalsyCallable", "method"}

\* impl() if callable(impl) else impl
Instantiated(impl) == IF Callable(impl) THEN TypeInstance(impl.v, <<>>) ELSE impl

TypeName(x) == IF x.t = "type" THEN x.v ELSE x.v.name

\* The module a TypeEngine class lives in: JSONB is
\* sqlalchemy.dialects.postgresql.JSONB, JSON and String are sqlalchemy's
\* generic types.
TypeModule(name) ==
  IF name = "JSONB" THEN "sqlalchemy.dialects.postgresql" ELSE "sqlalchemy.sql.sqltypes"

Dialects == {"postgresql", "sqlite", "mysql"}
NoDialect == "None"

\* dialect.type_descriptor(typeobj): the dialect's own implementation of
\* typeobj.
type_descriptor(dialect, typeobj) ==
  [t |-> "DialectImpl", v |-> [dialect |-> dialect, of |-> typeobj]]

\* ------------------------------------------------------ the classes of main.py

Classes == {"PydanticJSON", "PydanticString"}

\* OwnAttrs, had PydanticString not overridden _default_deserializer.
OwnAttrs_NoStringDeserializer(cls) ==
  CASE cls = "PydanticJSON" -> {"impl", "cache_ok", "get_dialect_type_impl"}
    [] cls = "PydanticString" -> {"impl", "cache_ok", "_default_serializer"}

\* The attributes a class body defines itself.
OwnAttrs(cls) ==
  CASE cls = "PydanticJSON" -> {"impl", "cache_ok", "get_dialect_type_impl"}
    [] cls = "PydanticString" ->
         {"impl", "cache_ok", "_default_serializer", "_default_deserializer"}

\* The class an attribute of an instance of cls is found on: the class
\* itself, else its base BasePydanticType.
Owner(cls, attr) == IF attr \in OwnAttrs(cls) THEN cls ELSE "BasePydanticType"

\* The class attribute impl.
ClassImpl(cls) ==
  IF cls = "PydanticJSON" THEN TypeClass("JSON") ELSE TypeClass("String")

\* isinstance(obj, BasePydanticType)
IsBasePydanticType(obj) == obj.t \in Classes

\* BasePydanticType._default_serializer
Base_default_serializer(self, model) ==
  IF model.t = "UserMeta" THEN model_dump(model) ELSE Raise("AttributeError")

\* BasePydanticType._default_deserializer
Base_default_deserializer(self, value) == validate_python(value)

\* String_default_serializer, had it dumped the model as the base class does.
String_default_serializer_Dump(self, model) ==
  IF model.t = "UserMeta" THEN model_dump(model) ELSE Raise("AttributeError")

\* PydanticString._default_serializer
String_default_serializer(self, model) ==
  IF model.t = "UserMeta" THEN model_dump_json(model) ELSE Raise("AttributeError")

\* PydanticString._default_deserializer
String_default_deserializer(self, value) == model_validate_json(value)

\* The caller's own serializer and deserializer: a wrapping of the model
\* that the deserializer undoes.
custom_serializer(model) == [t |-> "custom", v |-> model]
custom_deserializer(value) ==
  IF value.t = "custom" THEN value.v ELSE Raise("ValueError")

\* fn(value), for the callables a type instance can hold.
Invoke(fn, self, value) ==
  CASE fn = BoundMethod("BasePydanticType", "_default_serializer") ->
         Base_default_serializer(self, value)
    [] fn = BoundMethod("BasePydanticType", "_default_deserializer") ->
         Base_default_deserializer(self, value)
    [] fn = BoundMethod("PydanticString", "_default_serializer") ->
         String_default_serializer(self, value)
    [] fn = BoundMethod("PydanticString", "_default_deserializer") ->
         String_default_deserializer(self, value)
    [] fn.t \in {"function", "FalsyCallable"} /\ fn.v = "serializer" ->
         custom_serializer(value)
    [] fn.t \in {"function", "FalsyCallable"} /\ fn.v = "deserializer" ->
         custom_deserializer(value)

\* BasePydanticType.__init__(pydantic_model_type, *args, serializer,
\* deserializer): the new instance of class cls.
New(cls, pydantic_model_type, args, serializer, deserializer) ==
  [t |-> cls,
   v |-> [impl |-> TypeInstance(TypeName(ClassImpl(cls)), args),
          _pydantic_model_type |-> pydantic_model_type,
          _serializer |->
            Or(serializer, BoundMethod(Owner(cls, "_default_serializer"), "_default_serializer")),
          _deserializer |->
            Or(deserializer, BoundMethod(Owner(cls, "_default_deserializer"), "_default_deserializer"))]]

\* BasePydanticType.get_dialect_type_impl
Base_get_dialect_type_impl(self, dialect) == self.v.impl

\* JSON_get_dialect_type_impl, had it tested for another dialect name.
JSON_get_dialect_type_impl_Postgres(self, dialect) ==
  IF dialect = "postgres" THEN TypeClass("JSONB") ELSE self.v.impl

\* PydanticJSON.get_dialect_type_impl
JSON_get_dialect_type_impl(self, dialect) ==
  IF dialect = "postgresql" THEN TypeClass("JSONB") ELSE self.v.impl

\* self.get_dialect_type_impl(dialect)
get_dialect_type_impl(self, dialect) ==
  IF Owner(self.t, "get_dialect_type_impl") = "PydanticJSON"
    THEN JSON_get_dialect_type_impl(self, dialect)
    ELSE Base_get_dialect_type_impl(self, dialect)

\* What load_dialect_impl hands to dialect.type_descriptor.
load_dialect_impl_arg(self, dialect) ==
  Instantiated(get_dialect_type_impl(self, dialect))

\* BasePydanticType.load_dialect_impl
load_dialect_impl(self, dialect) ==
  type_descriptor(dialect, load_dialect_impl_arg(self, dialect))

\* The outcome of a call: what it returned (or raised) and the callables it
\* invoked, in order.
Outcome(ret, invoked) == [ret |-> ret, invoked |-> invoked]

\* BasePydanticType.process_bind_param
process_bind_param(self, value, dialect) ==
  IF IsNone(value)
    THEN Outcome(PyNone, <<>>)
    ELSE Outcome(Invoke(self.v._serializer, self, value), <<self.v._serializer>>)

\* process_result_value, had it tested the value's truth instead of
\* comparing it with None.
process_result_value_Falsy(self, value, dialect) ==
  IF ~Truthy(value)
    THEN Outcome(PyNone, <<>>)
    ELSE Outcome(Invoke(self.v._deserializer, self, value), <<self.v._deserializer>>)

\* BasePydanticType.process_result_value
process_result_value(self, value, dialect) ==
  IF IsNone(value)
    THEN Outcome(PyNone, <<>>)
    ELSE Outcome(Invoke(self.v._deserializer, self, value), <<self.v._deserializer>>)

\* ------------------------------------------------------- migrations/env.py

\* The text alembic renders for a type: the module prefix, the class name
\* and the constructor arguments, as the words of the text.
Rendered(prefix, typeobj) == PyStr(<<prefix, typeobj.v.name>> \o typeobj.v.args)

\* The default rendering of _repr_type: a type of sqlalchemy.dialects.<name>
\* is rendered as <name>.<repr>, any other sqlalchemy type as sa.<repr>.
DefaultRender(typeobj) ==
  IF TypeModule(typeobj.v.name) = "sqlalchemy.dialects.postgresql"
    THEN Rendered("postgresql.", typeobj)
    ELSE Rendered("sa.", typeobj)

\* The imports _repr_type adds to autogen_context.imports.
DefaultImports(typeobj) ==
  IF TypeModule(typeobj.v.name) = "sqlalchemy.dialects.postgresql"
    THEN {"from sqlalchemy.dialects import postgresql"}
    ELSE {}

\* NoRepr: render_item does not call _repr_type.
NoRepr == [t |-> "NoRepr", v |-> 0]

\* render_item_arg, had render_item rendered the generic impl whatever the
\* dialect.
render_item_arg_Generic(type_, obj, dialect) ==
  IF type_ = "type" /\ IsBasePydanticType(obj) THEN obj.v.impl ELSE NoRepr

\* What render_item hands to _repr_type, lines 40 to 46.
render_item_arg(type_, obj, dialect) ==
  IF type_ = "type" /\ IsBasePydanticType(obj)
    THEN IF dialect # NoDialect
           THEN Instantiated(get_dialect_type_impl(obj, dialect))
           ELSE obj.v.impl
    ELSE NoRepr

RECURSIVE render_item(_, _, _)

\* alembic's _repr_type(type_, autogen_context): the user's render_item is
\* asked first, and the default rendering is used when it answers False.
repr_type(typeobj, dialect) ==
  LET rendered == render_item("type", typeobj, dialect)
  IN IF rendered # PyBool(FALSE) THEN rendered ELSE DefaultRender(typeobj)

\* render_item, had it left out the test of type_.
render_item_AnyItem(type_, obj, dialect) ==
  IF IsBasePydanticType(obj)
    THEN repr_type(render_item_arg("type", obj, dialect), dialect)
    ELSE PyBool(FALSE)

\* render_item(type_, obj, autogen_context), where dialect is
\* autogen_context.dialect.
render_item(type_, obj, dialect) ==
  IF type_ = "type" /\ IsBasePydanticType(obj)
    THEN repr_type(render_item_arg(type_, obj, dialect), dialect)
    ELSE PyBool(FALSE)

\* ------------------------------------------------------------------- state

VARIABLES
  typ,      \* the column type instance in use
  ctor,     \* the serializer and deserializer arguments typ was built with
  call,     \* the last call made: its arguments, what it invoked, its result
  envPc,    \* env.py: the statement the load is at
  offline,  \* env.py: context.is_offline_mode() of this load
  envLog,   \* env.py: the calls of this load on the alembic context, in order
  loads     \* env.py: the loads finished

typeVars == <<typ, ctor, call>>
envVars == <<envPc, offline, envLog, loads>>
vars == <<typ, ctor, call, envPc, offline, envLog, loads>>

NoArg == [t |-> "NoArg", v |-> 0]

\* A call record; each action fills in the fields of its call.  The caller
\* makes one call at a time: op is "idle" between calls.
NoCall ==
  [op |-> "idle", type_ |-> "", obj |-> NoArg, value |-> NoArg,
   dialect |-> NoDialect, ret |-> NoArg, invoked |-> <<>>, origin |-> NoArg,
   repr_arg |-> NoRepr, imports |-> {}]

\* The arguments a caller can give for serializer and deserializer.
SerializerArgs == {PyNone, Function("serializer"), FalsyCallable("serializer")}
DeserializerArgs == {PyNone, Function("deserializer"), FalsyCallable("deserializer")}

\* *args of the constructor, handed on to the impl class.
ImplArgs == {<<>>, <<"arg">>}

\* Column values process_result_value is given besides those bound: NULL,
\* an empty string and an empty JSON object.
StoredValues == {PyNone, PyStr(<<>>), PyDict(EmptyDict)}

\* What render_item is called with besides the column type: a plain
\* sqlalchemy type and a server default.
OtherObjects == {TypeInstance("Integer", <<>>), [t |-> "DefaultClause", v |-> 0]}
ItemTypes == {"type", "server_default", "column"}

\* main.py, lines 142 and 149: the two column types built at import.
TypeInit ==
  /\ \E cls \in Classes :
       typ = New(cls, "UserMeta", <<>>, PyNone, PyNone)
  /\ ctor = [serializer |-> PyNone, deserializer |-> PyNone]
  /\ call = NoCall

\* A caller builds a column type: BasePydanticType.__init__.
Construct ==
  /\ call = NoCall
  /\ \E cls \in Classes, args \in ImplArgs,
        serializer \in SerializerArgs, deserializer \in DeserializerArgs :
       /\ typ' = New(cls, "UserMeta", args, serializer, deserializer)
       /\ ctor' = [serializer |-> serializer, deserializer |-> deserializer]
  /\ call' = NoCall
  /\ UNCHANGED envVars

\* A model instance, or None, is bound to a statement parameter.
ProcessBindParam ==
  /\ call = NoCall
  /\ \E value \in Models \cup {PyNone}, dialect \in Dialects :
       LET out == process_bind_param(typ, value, dialect)
       IN call' = [NoCall EXCEPT !.op = "process_bind_param", !.obj = typ,
                                 !.value = value, !.dialect = dialect,
                                 !.invoked = out.invoked, !.ret = out.ret]
  /\ UNCHANGED <<typ, ctor, envVars>>

\* A column value of a result row is converted.
ProcessResultValue ==
  /\ call = NoCall
  /\ \E value \in StoredValues, dialect \in Dialects :
       LET out == process_result_value(typ, value, dialect)
       IN call' = [NoCall EXCEPT !.op = "process_result_value", !.obj = typ,
                                 !.value = value, !.dialect = dialect,
                                 !.invoked = out.invoked, !.ret = out.ret]
  /\ UNCHANGED <<typ, ctor, envVars>>

\* The value just bound is read back over the same connection:
\* process_result_value(process_bind_param(m, d), d).
ReadBack ==
  /\ call.op = "process_bind_param"
  /\ ~IsRaise(call.ret)
  /\ LET out == process_result_value(typ, call.ret, call.dialect)
     IN call' = [NoCall EXCEPT !.op = "process_result_value", !.obj = typ,
                               !.value = call.ret, !.dialect = call.dialect,
                               !.origin = call.value,
                               !.invoked = out.invoked, !.ret = out.ret]
  /\ UNCHANGED <<typ, ctor, envVars>>

GetDialectTypeImpl ==
  /\ call = NoCall
  /\ \E dialect \in Dialects :
       call' = [NoCall EXCEPT !.op = "get_dialect_type_impl", !.obj = typ,
                              !.dialect = dialect,
                              !.ret = get_dialect_type_impl(typ, dialect)]
  /\ UNCHANGED <<typ, ctor, envVars>>

LoadDialectImpl ==
  /\ call = NoCall
  /\ \E dialect \in Dialects :
       call' = [NoCall EXCEPT !.op = "load_dialect_impl", !.obj = typ,
                              !.dialect = dialect,
                              !.ret = load_dialect_impl(typ, dialect)]
  /\ UNCHANGED <<typ, ctor, envVars>>

\* alembic asks render_item how to render an item of the schema.
RenderItem ==
  /\ call = NoCall
  /\ \E type_ \in ItemTypes, obj \in {typ} \cup OtherObjects,
        dialect \in Dialects \cup {NoDialect} :
       LET arg == render_item_arg(type_, obj, dialect)
       IN call' = [NoCall EXCEPT !.op = "render_item", !.type_ = type_,
                                 !.obj = obj, !.dialect = dialect,
                                 !.repr_arg = arg,
                                 !.imports = IF arg = NoRepr THEN {}
                                             ELSE DefaultImports(arg),
                                 !.ret = render_item(type_, obj, dialect)]
  /\ UNCHANGED <<typ, ctor, envVars>>

\* The caller has read the result of its call and makes the next one.
Return ==
  /\ call # NoCall
  /\ call' = NoCall
  /\ UNCHANGED <<typ, ctor, envVars>>

\* ----------------------------------------------- the load of migrations/env.py

\* A call made on alembic's context, the config or the engine.  For
\* configure, kw holds the keyword arguments of the call.
NoKw == [target_metadata |-> "", render_item |-> "", source |-> ""]
Event(ev) == [ev |-> ev, kw |-> NoKw]
Configure(source) ==
  [ev |-> "configure",
   kw |-> [target_metadata |-> "Base.metadata", render_item |-> "render_item",
           source |-> source]]

EnvIdle ==
  /\ envPc = "unloaded"
  /\ offline = FALSE
  /\ envLog = <<>>
  /\ loads = 0

\* alembic loads env.py: lines 13 to 26 run, fileConfig only when the config
\* names a file.  Whether the command runs offline is alembic's.
ModuleTop ==
  /\ envPc \in {"unloaded", "done", "failed"}
  /\ loads < MaxLoads
  /\ \E mode \in BOOLEAN, has_config_file \in BOOLEAN :
       /\ offline' = mode
       /\ envLog' = <<Event("set_main_option")>>
                    \o (IF has_config_file THEN <<Event("fileConfig")>> ELSE <<>>)
  /\ envPc' = "dispatch"
  /\ UNCHANGED <<loads, typeVars>>

\* Lines 101 to 104.
Dispatch ==
  /\ envPc = "dispatch"
  /\ IF offline
       THEN /\ envLog' = Append(envLog, Event("run_migrations_offline"))
            /\ envPc' = "offline_configure"
       ELSE /\ envLog' = Append(envLog, Event("run_migrations_online"))
            /\ envPc' = "online_engine"
  /\ UNCHANGED <<offline, loads, typeVars>>

\* run_migrations_offline, lines 64 to 71.
OfflineConfigure ==
  /\ envPc = "offline_configure"
  /\ envLog' = envLog \o <<Event("get_main_option"), Configure("url")>>
  /\ envPc' = "offline_begin"
  /\ UNCHANGED <<offline, loads, typeVars>>

\* Line 73: the with statement enters the transaction.
OfflineBegin ==
  /\ envPc = "offline_begin"
  /\ envLog' = Append(envLog, Event("begin_transaction"))
  /\ envPc' = "offline_run"
  /\ UNCHANGED <<offline, loads, typeVars>>

\* Line 74, and the end of the with block: the migrations run or raise, and
\* the transaction ends either way.
OfflineRun ==
  /\ envPc = "offline_run"
  /\ \E raised \in BOOLEAN :
       /\ envLog' = envLog \o <<Event("run_migrations"), Event("end_transaction")>>
       /\ envPc' = IF raised THEN "failed" ELSE "done"
  /\ loads' = loads + 1
  /\ UNCHANGED <<offline, typeVars>>

\* run_migrations_online, lines 84 to 88.
OnlineEngine ==
  /\ envPc = "online_engine"
  /\ envLog' = Append(envLog, Event("engine_from_config"))
  /\ envPc' = "online_connect"
  /\ UNCHANGED <<offline, loads, typeVars>>

\* Line 90: the connection is made, or connect raises and the load ends.
OnlineConnect ==
  /\ envPc = "online_connect"
  /\ \E raised \in BOOLEAN :
       IF raised
         THEN /\ envLog' = envLog
              /\ envPc' = "failed"
              /\ loads' = loads + 1
         ELSE /\ envLog' = Append(envLog, Event("connect"))
              /\ envPc' = "online_configure"
              /\ loads' = loads
  /\ UNCHANGED <<offline, typeVars>>

\* OnlineConfigure, had it configured the context without the hook.
OnlineConfigure_NoHook ==
  /\ envPc = "online_configure"
  /\ envLog' = Append(envLog, [ev |-> "configure",
                               kw |-> [target_metadata |-> "Base.metadata",
                                       render_item |-> "", source |-> "connection"]])
  /\ envPc' = "online_begin"
  /\ UNCHANGED <<offline, loads, typeVars>>

\* Lines 91 to 95.
OnlineConfigure ==
  /\ envPc = "online_configure"
  /\ envLog' = Append(envLog, Configure("connection"))
  /\ envPc' = "online_begin"
  /\ UNCHANGED <<offline, loads, typeVars>>

\* Line 97.
OnlineBegin ==
  /\ envPc = "online_begin"
  /\ envLog' = Append(envLog, Event("begin_transaction"))
  /\ envPc' = "online_run"
  /\ UNCHANGED <<offline, loads, typeVars>>

\* Line 98, and the ends of the two with blocks: the transaction ends and
\* the connection is closed whether the migrations ran or raised.
OnlineRun ==
  /\ envPc = "online_run"
  /\ \E raised \in BOOLEAN :
       /\ envLog' = envLog \o <<Event("run_migrations"), Event("end_transaction"),
                                Event("close")>>
       /\ envPc' = IF raised THEN "failed" ELSE "done"
  /\ loads' = loads + 1
  /\ UNCHANGED <<offline, typeVars>>

Init == TypeInit /\ EnvIdle

Next ==
  \/ Construct
  \/ ProcessBindParam
  \/ ProcessResultValue
  \/ ReadBack
  \/ GetDialectTypeImpl
  \/ LoadDialectImpl
  \/ RenderItem
  \/ Return

Spec == Init /\ [][Next]_vars

NextEnv ==
  \/ ModuleTop
  \/ Dispatch
  \/ OfflineConfigure
  \/ OfflineBegin
  \/ OfflineRun
  \/ OnlineEngine
  \/ OnlineConnect
  \/ OnlineConfigure
  \/ OnlineBegin
  \/ OnlineRun

\* The loads of env.py by alembic.
SpecEnv == Init /\ [][NextEnv]_vars

\* ------------------------------------------------------------------ claims

DefaultsOnly == ctor.serializer = PyNone /\ ctor.deserializer = PyNone

\* C1: a model instance bound and read back by a type built without a
\* custom serializer or deserializer comes back equal, field by field, for
\* both classes and every dialect.
C1_RoundTrip ==
  (/\ call.op = "process_result_value"
   /\ call.origin.t = "UserMeta"
   /\ DefaultsOnly)
  => call.ret = call.origin

\* A PydanticString round trip of a model whose string holds the characters
\* JSON escapes and whose optional field is None.
C1_Witness ==
  /\ call.op = "process_result_value"
  /\ typ.t = "PydanticString"
  /\ DefaultsOnly
  /\ call.origin = UserMeta(PyStr(<<Quote, Backslash>>), PyInt(0 - MaxInt), PyNone)
  /\ call.ret = call.origin

IsJsonValue(x) == x.t \in {"str", "int", "bool", "NoneType"}

\* C2: with the default serializer, PydanticJSON binds a model as the
\* mapping of its field names to JSON values and PydanticString binds it as
\* one string, the JSON text of that mapping; neither binds the model
\* object itself.
C2_StoredRepresentation ==
  (/\ call.op = "process_bind_param"
   /\ call.value.t = "UserMeta"
   /\ typ.v._serializer.t = "method")
  => /\ call.ret # call.value
     /\ call.ret.t # "UserMeta"
     /\ typ.t = "PydanticJSON" =>
          /\ call.ret.t = "dict"
          /\ DOMAIN call.ret.v = {KeyA, KeyB, KeyC}
          /\ \A k \in DOMAIN call.ret.v : IsJsonValue(call.ret.v[k])
          /\ call.ret.v[KeyA] = call.value.v.a
          /\ call.ret.v[KeyB] = call.value.v.b
          /\ call.ret.v[KeyC] = call.value.v.c
     /\ typ.t = "PydanticString" =>
          /\ call.ret.t = "str"
          /\ json_loads(call.ret.v).ok
          /\ json_loads(call.ret.v).val = model_dump(call.value)

C2_Witness ==
  /\ call.op = "process_bind_param"
  /\ typ.t = "PydanticString"
  /\ typ.v._serializer.t = "method"
  /\ call.value = UserMeta(PyStr(<<"t">>), PyInt(1), PyBool(TRUE))
  /\ call.ret.t = "str"

\* C3: PydanticJSON.get_dialect_type_impl returns JSONB exactly for the
\* dialect named postgresql and its own JSON impl for every other dialect;
\* the base method, which PydanticString inherits, returns the instance's
\* own impl (String for PydanticString) for every dialect.
C3_DialectType ==
  /\ \A d \in Dialects : Base_get_dialect_type_impl(typ, d) = typ.v.impl
  /\ call.op = "get_dialect_type_impl" =>
       /\ typ.t = "PydanticJSON" =>
            /\ (call.ret = TypeClass("JSONB")) <=> (call.dialect = "postgresql")
            /\ call.dialect # "postgresql" =>
                 call.ret = typ.v.impl /\ TypeName(call.ret) = "JSON"
       /\ typ.t = "PydanticString" =>
            call.ret = typ.v.impl /\ TypeName(call.ret) = "String"

C3_Witness ==
  /\ call.op = "get_dialect_type_impl"
  /\ typ.t = "PydanticJSON"
  /\ call.dialect = "postgresql"
  /\ call.ret = TypeClass("JSONB")

\* C4: render_item answers False unless type_ is "type" and obj is a
\* BasePydanticType instance, and then it answers a rendered text, with or
\* without a dialect in the autogenerate context.
C4_RenderItem ==
  call.op = "render_item" =>
    IF call.type_ = "type" /\ IsBasePydanticType(call.obj)
      THEN call.ret.t = "str"
      ELSE call.ret = PyBool(FALSE)

C4_Witness ==
  /\ call.op = "render_item"
  /\ call.type_ = "type"
  /\ IsBasePydanticType(call.obj)
  /\ call.dialect = NoDialect
  /\ call.ret.t = "str"

\* C5: for a BasePydanticType instance and a dialect in the autogenerate
\* context, render_item renders the type load_dialect_impl hands to
\* dialect.type_descriptor, so a PydanticJSON column is rendered as JSONB
\* exactly when the runtime column is JSONB; without a dialect it renders the
\* generic impl instance (JSON for PydanticJSON, String for PydanticString).
C5_RenderAgreesWithRuntime ==
  (/\ call.op = "render_item"
   /\ call.type_ = "type"
   /\ IsBasePydanticType(call.obj))
  => IF call.dialect # NoDialect
       THEN /\ call.repr_arg = load_dialect_impl(call.obj, call.dialect).v.of
            /\ call.ret = DefaultRender(load_dialect_impl(call.obj, call.dialect).v.of)
            /\ call.obj.t = "PydanticJSON" =>
                 ((call.ret.v[2] = "JSONB")
                    <=> (TypeName(load_dialect_impl(call.obj, call.dialect).v.of) = "JSONB"))
       ELSE /\ call.repr_arg = call.obj.v.impl
            /\ call.repr_arg.t = "TypeEngine"
            /\ TypeName(call.repr_arg) =
                 (IF call.obj.t = "PydanticJSON" THEN "JSON" ELSE "String")
            /\ call.ret = DefaultRender(call.obj.v.impl)

C5_Witness ==
  /\ call.op = "render_item"
  /\ call.type_ = "type"
  /\ call.obj.t = "PydanticJSON"
  /\ call.dialect = "postgresql"
  /\ call.ret = PyStr(<<"postgresql.", "JSONB">>)
  /\ call.imports = {"from sqlalchemy.dialects import postgresql"}

\* C6: process_bind_param and process_result_value return None for None
\* without invoking the serializer or deserializer, default or custom; for
\* any other value they invoke it exactly once and return its result.
C6_NonePassthrough ==
  /\ call.op = "process_bind_param" =>
       IF IsNone(call.value)
         THEN call.ret = PyNone /\ call.invoked = <<>>
         ELSE /\ call.invoked = <<typ.v._serializer>>
              /\ call.ret = Invoke(typ.v._serializer, typ, call.value)
  /\ call.op = "process_result_value" =>
       IF IsNone(call.value)
         THEN call.ret = PyNone /\ call.invoked = <<>>
         ELSE /\ call.invoked = <<typ.v._deserializer>>
              /\ call.ret = Invoke(typ.v._deserializer, typ, call.value)

C6_Witness ==
  /\ call.op = "process_result_value"
  /\ IsNone(call.value)
  /\ ctor.deserializer = Function("deserializer")
  /\ call.ret = PyNone
  /\ call.invoked = <<>>

\* The default of a class: the override of PydanticString, else the method
\* of the base class.
ClassDefault(cls, attr) ==
  BoundMethod(IF cls = "PydanticString" THEN "PydanticString" ELSE "BasePydanticType",
              attr)

\* C7: a serializer or deserializer given to the constructor is the one the
\* instance uses; when it is omitted or None the class's own default is
\* used (the override, for PydanticString); the two choices are independent.
C7_SerializerSelection ==
  LET serializer == IF ctor.serializer = PyNone
                      THEN ClassDefault(typ.t, "_default_serializer")
                      ELSE ctor.serializer
      deserializer == IF ctor.deserializer = PyNone
                        THEN ClassDefault(typ.t, "_default_deserializer")
                        ELSE ctor.deserializer
  IN /\ typ.v._serializer = serializer
     /\ typ.v._deserializer = deserializer
     /\ (call.op = "process_bind_param" /\ ~IsNone(call.value)) =>
          call.invoked = <<serializer>>
     /\ (call.op = "process_result_value" /\ ~IsNone(call.value)) =>
          call.invoked = <<deserializer>>

\* The events of the load so far named ev.
Count(ev) == Cardinality({i \in DOMAIN envLog : envLog[i].ev = ev})

\* C8: a load of env.py runs exactly one of run_migrations_offline and
\* run_migrations_online, the offline one exactly in offline mode; the
\* context is configured with Base.metadata and render_item before the
\* transaction begins and before run_migrations; run_migrations is called
\* only inside a begun transaction.
C8_EnvRun ==
  /\ envPc \in {"unloaded", "dispatch"} =>
       Count("run_migrations_offline") + Count("run_migrations_online") = 0
  /\ envPc \notin {"unloaded", "dispatch"} =>
       /\ Count("run_migrations_offline") = (IF offline THEN 1 ELSE 0)
       /\ Count("run_migrations_online") = (IF offline THEN 0 ELSE 1)
  /\ \A i \in DOMAIN envLog :
       envLog[i].ev \in {"begin_transaction", "run_migrations"} =>
         \E j \in 1 .. (i - 1) :
           /\ envLog[j].ev = "configure"
           /\ envLog[j].kw.target_metadata = "Base.metadata"
           /\ envLog[j].kw.render_item = "render_item"
  /\ \A i \in DOMAIN envLog :
       envLog[i].ev = "run_migrations" =>
         \E j \in 1 .. (i - 1) :
           /\ envLog[j].ev = "begin_transaction"
           /\ \A k \in (j + 1) .. (i - 1) : envLog[k].ev # "end_transaction"

C8_Witness ==
  /\ envPc = "done"
  /\ ~offline
  /\ loads = MaxLoads
  /\ Count("run_migrations") = 1
  /\ Count("configure") = 1
====
